---- MODULE Spec2Model ----
(***************************************************************************)
(* Model of the HSlider drag controller of iced_audio                      *)
(* (src/native/h_slider.rs): the widget State, the builder configuration   *)
(* of the HSlider, and Widget::on_event.                                   *)
(*                                                                         *)
(* Numbers.  Normals, the accumulator and movements are f32 in the code.   *)
(* They are modelled as exact rationals in fixed point: the integer n      *)
(* stands for n / Unit, with Unit == ScalarDen * BoundsWidth, so that      *)
(* ((x - prev) / width) * scalar is an integer for every pointer           *)
(* coordinate and scalar of the model.  Rounding of f32 is not modelled.   *)
(***************************************************************************)
EXTENDS Integers, Sequences, FiniteSets, TLC

(***************************************************************************)
(* Program constants                                                       *)
(***************************************************************************)
\* scalars are kept as numerators over ScalarDen: 0.98 = 49/50, 0.02 = 1/50
ScalarDen == 50
DEFAULT_SCALAR == 49
DEFAULT_MODIFIER_SCALAR == 1

(***************************************************************************)
(* Inputs handed to on_event by the host: layout bounds, cursor positions, *)
(* modifier states                                                         *)
(***************************************************************************)
\* layout.bounds(): origin (BoundsX, BoundsY), height BoundsHeight, and a
\* width that is BoundsWidth or 0 (degenerate)
BoundsX == 0
BoundsY == 0
BoundsWidth == 10
BoundsHeight == 14
Widths == {0, BoundsWidth}

\* one unit of the fixed-point scale is 1 / Unit
Unit == ScalarDen * BoundsWidth
Half == Unit \div 2

\* cursor positions: two inside the bounds, one to the right of them, one below
Points ==
    { [x |-> 4, y |-> 0], [x |-> 5, y |-> 0],
      [x |-> 15, y |-> 0], [x |-> 5, y |-> 20] }

\* keyboard::ModifiersState as the set of the modifiers that are down
Keys == {"control"}
ModifiersStates == SUBSET Keys

\* identifiers a Param can be constructed with
IDs == {"HSliderInt"}

\* the accumulator is explored up to MaxOver units outside [0, Unit]
MaxOver == 50

(***************************************************************************)
(* State                                                                   *)
(***************************************************************************)
VARIABLES
    param,              \* State::param: [id, normal, default_normal]
    is_dragging,        \* State::is_dragging
    prev_drag_x,        \* State::prev_drag_x
    continuous_normal,  \* State::continuous_normal (unclamped accumulator)
    pressed_modifiers,  \* State::pressed_modifiers
    last_click,         \* State::last_click: NoClick or [kind, position, recent]
    scalar,             \* HSlider::scalar
    modifier_scalar,    \* HSlider::modifier_scalar
    modifier_keys,      \* HSlider::modifier_keys
    messages,           \* the Vec<Message> of the last on_event call
    drag,               \* history: the press that started the current drag
    hist,               \* history: overshoot / release / next drag
    other,              \* a second HSlider with its own State (two-widget runs)
    calc                \* the argument and result of a Range computation

vars ==
    << param, is_dragging, prev_drag_x, continuous_normal, pressed_modifiers,
       last_click, scalar, modifier_scalar, modifier_keys, messages, drag, hist,
       other, calc >>

\* what the single-widget runs leave alone
aux == << other, calc >>
NoOther == [present |-> FALSE]
NoCalc == [op |-> "none"]

config == << scalar, modifier_scalar, modifier_keys >>

(***************************************************************************)
(* Helpers                                                                 *)
(***************************************************************************)
\* Normal::from(f32): clamps into [0, 1]
NormalFrom(v) == IF v < 0 THEN 0 ELSE IF v > Unit THEN Unit ELSE v

(***************************************************************************)
(* Range family (crate::core): the Stepped-Int range [IntMin, IntMax]      *)
(***************************************************************************)
IntMin == 0
IntMax == 5
IntSpan == IntMax - IntMin

\* the normal of the k-th step position, k in 0 .. IntSpan
StepNormal(k) == (k * Unit) \div IntSpan

\* the index of the step position nearest to normal n (halves round up)
NearestStep(n) == (2 * n * IntSpan + Unit) \div (2 * Unit)

\* IntRange::snap_normal: the nearest of the IntSpan + 1 step positions
SnapNormal(n) == StepNormal(NearestStep(n))

IsStepNormal(n) == \E k \in 0 .. IntSpan : n = StepNormal(k)

\* variant: only the vertical extent of the bounds is tested
ContainsIgnoresX(w, p) == BoundsY <= p.y /\ p.y < BoundsY + BoundsHeight

\* Rectangle::contains of layout.bounds() with width w
Contains(w, p) ==
    /\ BoundsX <= p.x /\ p.x < BoundsX + w
    /\ BoundsY <= p.y /\ p.y < BoundsY + BoundsHeight

\* variant: a zero width is replaced by one pixel instead of being skipped
BoundsWidthAtLeastOne(w) == IF w > 0 THEN w ELSE 1

\* layout.bounds().width, the divisor of a move
BoundsWidthOf(w) == w

\* variant: the press captures the vertical coordinate
PressCoordY(p) == p.y

\* the pointer coordinate a press captures: cursor_position.x
PressCoord(p) == p.x

\* variant: the pressed modifiers must be exactly the configured ones
MatchesExactly(pressed, keys) == keys = pressed

\* ModifiersState::matches: every modifier of keys is down in pressed
Matches(pressed, keys) == keys \subseteq pressed

\* variant: the pressed modifiers are ignored
MoveScalarIgnoresModifier(pressed, keys, s, ms) == s

\* the scalar a move uses (if .. matches .. modifier_scalar else scalar)
MoveScalar(pressed, keys, s, ms) == IF Matches(pressed, keys) THEN ms ELSE s

\* variant: the cursor is clamped into the bounds before the delta is taken
MovementXInsideBounds(x, prev, w, s) ==
    LET cx == IF x < BoundsX THEN BoundsX
              ELSE IF x > BoundsX + w THEN BoundsX + w ELSE x
    IN  ((cx - prev) * s * Unit) \div (w * ScalarDen)

\* variant: the movement is taken from the cursor position, not from its delta
MovementXAbsolute(x, prev, w, s) == (x * s * Unit) \div (w * ScalarDen)

\* ((cursor_position.x - prev_drag_x) / bounds_width) * scalar, in units
MovementX(x, prev, w, s) == ((x - prev) * s * Unit) \div (w * ScalarDen)

\* variant: the movement is added to the Param's normal, not to the accumulator
AccumulateFromNormal(acc, movement_x) == param.normal + movement_x

\* variant: the accumulator itself is clamped
AccumulateClamped(acc, movement_x) == NormalFrom(acc + movement_x)

\* self.state.continuous_normal + movement_x
Accumulate(acc, movement_x) == acc + movement_x

\* variant: the move snaps the normal to the steps of the Stepped-Int range
MovedNormalSnapped(normal) == SnapNormal(NormalFrom(normal))

\* variant: the accumulator is written to the Param without the conversion
MovedNormalUnclamped(normal) == normal

\* variant: an escaping value wraps around into the interval
MovedNormalWraps(normal) == normal % (Unit + 1)

\* self.state.param.normal = normal.into()
MovedNormal(normal) == NormalFrom(normal)

\* variant: the message carries a fixed identifier
OnChangeFixedId(p) == "HSliderInt"

\* the message pushed by messages.push((self.on_change)(self.state.param.id))
OnChange(p) == p.id

NoClick == [kind |-> "None"]

\* mouse::click::Kind::next
NextKind(kind) ==
    CASE kind = "Single" -> "Double"
      [] kind = "Double" -> "Triple"
      [] OTHER -> "Double"

\* Click::is_consecutive: same position, within the double-click time window
IsConsecutive(previous, position) ==
    previous.position = position /\ previous.recent

\* mouse::Click::new(cursor_position, self.state.last_click)
ClickNew(position, previous) ==
    [ kind |-> IF previous # NoClick /\ IsConsecutive(previous, position)
                 THEN NextKind(previous.kind)
                 ELSE "Single",
      position |-> position,
      recent |-> TRUE ]

\* variant: the release leaves the accumulator as it is
ReleaseKeepsAccumulator(acc, normal) == acc

\* continuous_normal = param.normal.value() on a left-button release
ReleaseSync(acc, normal) == normal

\* variant: a double or triple click does not touch is_dragging
MultiClickKeepsDragging(dragging) == dragging

\* is_dragging after a double or triple click
MultiClickDragging(dragging) == FALSE

\* variant: a double or triple click resets to the centre of the range
ResetNormalToCentre(p) == Half

\* param.normal after a double or triple click
ResetNormal(p) == p.default_normal

(***************************************************************************)
(* History variables                                                       *)
(***************************************************************************)
\* drag: the press that started the current drag, while the modifiers and the
\* bounds width have not changed since (pure); zero marks a drag whose last
\* move found zero-width bounds; small holds while every move of the drag went
\* right by less than half a step of the Stepped-Int range
NoDrag == [pure |-> FALSE, zero |-> FALSE]
ZeroWidthMove == [pure |-> FALSE, zero |-> TRUE]

DragStart(acc, x, mods) ==
    [pure |-> TRUE, zero |-> FALSE, a0 |-> acc, x0 |-> x, mods |-> mods,
     moved |-> FALSE, over |-> FALSE, small |-> TRUE]

DragMoved(d, acc) ==
    IF d.pure
    THEN [d EXCEPT !.moved = TRUE, !.over = @ \/ acc < 0 \/ acc > Unit,
                   !.small = /\ @
                             /\ acc > continuous_normal
                             /\ 2 * (acc - continuous_normal) * IntSpan < Unit]
    ELSE NoDrag

(***************************************************************************)
(* Init: State::new(param) and HSlider::new(state, on_change)              *)
(***************************************************************************)
Init ==
    /\ param \in [id : IDs, normal : {Half}, default_normal : {Half}]
    /\ is_dragging = FALSE
    /\ prev_drag_x = 0
    /\ continuous_normal = param.normal
    /\ pressed_modifiers = {}
    /\ last_click = NoClick
    /\ scalar = DEFAULT_SCALAR
    /\ modifier_scalar = DEFAULT_MODIFIER_SCALAR
    /\ modifier_keys = {"control"}
    /\ messages = << >>
    /\ drag = NoDrag
    /\ hist = "none"
    /\ other = NoOther
    /\ calc = NoCalc

(***************************************************************************)
(* on_event                                                                *)
(***************************************************************************)
\* variant: a move that finds zero-width bounds still records the pointer
CursorMovedTracksPointer(p, w) ==
    /\ IF is_dragging /\ BoundsWidthOf(w) > 0
       THEN LET movement_x ==
                    MovementX(p.x, prev_drag_x, BoundsWidthOf(w),
                              MoveScalar(pressed_modifiers, modifier_keys,
                                         scalar, modifier_scalar))
                normal == Accumulate(continuous_normal, movement_x)
            IN  /\ normal >= 0 - MaxOver /\ normal <= Unit + MaxOver
                /\ continuous_normal' = normal
                /\ prev_drag_x' = p.x
                /\ param' = [param EXCEPT !.normal = MovedNormal(normal)]
                /\ messages' = << OnChange(param) >>
                /\ drag' = DragMoved(drag, normal)
                /\ hist' = IF hist = "redrag" /\ p.x < prev_drag_x
                             THEN "back"
                             ELSE IF normal > Unit THEN "over" ELSE "none"
       ELSE /\ messages' = << >>
            /\ drag' = IF is_dragging THEN ZeroWidthMove ELSE drag
            /\ prev_drag_x' = IF is_dragging THEN p.x ELSE prev_drag_x
            /\ UNCHANGED << param, continuous_normal, hist >>
    /\ UNCHANGED << is_dragging, pressed_modifiers, last_click, config >>

\* mouse::Event::CursorMoved, with cursor position p and bounds width w
CursorMoved(p, w) ==
    /\ IF is_dragging /\ BoundsWidthOf(w) > 0
       THEN LET movement_x ==
                    MovementX(p.x, prev_drag_x, BoundsWidthOf(w),
                              MoveScalar(pressed_modifiers, modifier_keys,
                                         scalar, modifier_scalar))
                normal == Accumulate(continuous_normal, movement_x)
            IN  /\ normal >= 0 - MaxOver /\ normal <= Unit + MaxOver
                /\ continuous_normal' = normal
                /\ prev_drag_x' = p.x
                /\ param' = [param EXCEPT !.normal = MovedNormal(normal)]
                /\ messages' = << OnChange(param) >>
                /\ drag' = DragMoved(drag, normal)
                /\ hist' = IF hist = "redrag" /\ p.x < prev_drag_x
                             THEN "back"
                             ELSE IF normal > Unit THEN "over" ELSE "none"
       ELSE /\ messages' = << >>
            /\ drag' = IF is_dragging THEN ZeroWidthMove ELSE drag
            /\ UNCHANGED << param, prev_drag_x, continuous_normal, hist >>
    /\ UNCHANGED << is_dragging, pressed_modifiers, last_click, config >>

\* mouse::Event::ButtonPressed(mouse::Button::Left)
LeftPressed(p, w) ==
    /\ IF Contains(w, p)
       THEN LET click == ClickNew(p, last_click)
            IN  /\ IF click.kind = "Single"
                   THEN /\ is_dragging' = TRUE
                        /\ prev_drag_x' = PressCoord(p)
                        /\ messages' = << >>
                        /\ drag' = DragStart(continuous_normal, PressCoord(p),
                                             pressed_modifiers)
                        /\ hist' = IF hist = "resynced" THEN "redrag" ELSE "none"
                        /\ UNCHANGED param
                   ELSE /\ is_dragging' = MultiClickDragging(is_dragging)
                        /\ param' = [param EXCEPT !.normal = ResetNormal(param)]
                        /\ messages' = << OnChange(param) >>
                        /\ drag' = NoDrag
                        /\ hist' = "none"
                        /\ UNCHANGED prev_drag_x
                /\ last_click' = click
       ELSE /\ messages' = << >>
            /\ UNCHANGED << param, is_dragging, prev_drag_x, last_click,
                            drag, hist >>
    /\ UNCHANGED << continuous_normal, pressed_modifiers, config >>

\* variant: the release also writes the clamped accumulator to the Param
LeftReleasedWritesNormal ==
    /\ is_dragging' = FALSE
    /\ param' = [param EXCEPT !.normal = NormalFrom(continuous_normal)]
    /\ continuous_normal' = NormalFrom(continuous_normal)
    /\ messages' = << >>
    /\ drag' = NoDrag
    /\ hist' = IF hist = "over" THEN "resynced" ELSE "none"
    /\ UNCHANGED << prev_drag_x, pressed_modifiers, last_click, config >>

\* variant: the release also pushes a change notification
LeftReleasedNotifies ==
    /\ is_dragging' = FALSE
    /\ continuous_normal' = ReleaseSync(continuous_normal, param.normal)
    /\ messages' = << OnChange(param) >>
    /\ drag' = NoDrag
    /\ hist' = IF hist = "over" THEN "resynced" ELSE "none"
    /\ UNCHANGED << param, prev_drag_x, pressed_modifiers, last_click, config >>

\* variant: the release is handled only while a drag is in progress
LeftReleasedWhileDragging ==
    /\ is_dragging' = FALSE
    /\ continuous_normal' = IF is_dragging
                            THEN ReleaseSync(continuous_normal, param.normal)
                            ELSE continuous_normal
    /\ messages' = << >>
    /\ drag' = NoDrag
    /\ hist' = IF hist = "over" THEN "resynced" ELSE "none"
    /\ UNCHANGED << param, prev_drag_x, pressed_modifiers, last_click, config >>

\* mouse::Event::ButtonReleased(mouse::Button::Left)
LeftReleased ==
    /\ is_dragging' = FALSE
    /\ continuous_normal' = ReleaseSync(continuous_normal, param.normal)
    /\ messages' = << >>
    /\ drag' = NoDrag
    /\ hist' = IF hist = "over" THEN "resynced" ELSE "none"
    /\ UNCHANGED << param, prev_drag_x, pressed_modifiers, last_click, config >>

\* variant: a key press also ends the drag
KeyPressedEndsDrag(modifiers) ==
    /\ pressed_modifiers' = modifiers
    /\ is_dragging' = FALSE
    /\ messages' = << >>
    /\ drag' = NoDrag
    /\ UNCHANGED << param, prev_drag_x, continuous_normal,
                    last_click, config, hist >>

\* keyboard::Event::KeyPressed { modifiers, .. }
KeyPressed(modifiers) ==
    /\ pressed_modifiers' = modifiers
    /\ messages' = << >>
    /\ drag' = IF modifiers # pressed_modifiers THEN NoDrag ELSE drag
    /\ UNCHANGED << param, is_dragging, prev_drag_x, continuous_normal,
                    last_click, config, hist >>

\* variant: a key release also resynchronizes the accumulator
KeyReleasedResyncs(modifiers) ==
    /\ pressed_modifiers' = modifiers
    /\ continuous_normal' = param.normal
    /\ messages' = << >>
    /\ drag' = NoDrag
    /\ UNCHANGED << param, is_dragging, prev_drag_x, last_click, config, hist >>

\* keyboard::Event::KeyReleased { modifiers, .. }
KeyReleased(modifiers) ==
    /\ pressed_modifiers' = modifiers
    /\ messages' = << >>
    /\ drag' = IF modifiers # pressed_modifiers THEN NoDrag ELSE drag
    /\ UNCHANGED << param, is_dragging, prev_drag_x, continuous_normal,
                    last_click, config, hist >>

\* variant: the release of any mouse button ends the drag
OtherEventEndsDrag ==
    /\ is_dragging' = FALSE
    /\ messages' = << >>
    /\ drag' = NoDrag
    /\ UNCHANGED << param, prev_drag_x, continuous_normal,
                    pressed_modifiers, last_click, config, hist >>

\* every other event: the `_ => {}` arms
OtherEvent ==
    /\ messages' = << >>
    /\ UNCHANGED << param, is_dragging, prev_drag_x, continuous_normal,
                    pressed_modifiers, last_click, config, drag, hist >>

\* the double-click time window of last_click elapses (Instant::now() moves on)
TimePasses ==
    /\ last_click # NoClick
    /\ last_click.recent
    /\ last_click' = [last_click EXCEPT !.recent = FALSE]
    /\ UNCHANGED << param, is_dragging, prev_drag_x, continuous_normal,
                    pressed_modifiers, config, messages, drag, hist >>

Next ==
    \/ \E p \in Points, w \in Widths : CursorMoved(p, w) /\ UNCHANGED aux
    \/ \E p \in Points, w \in Widths : LeftPressed(p, w) /\ UNCHANGED aux
    \/ LeftReleased /\ UNCHANGED aux
    \/ \E m \in ModifiersStates : KeyPressed(m) /\ UNCHANGED aux
    \/ \E m \in ModifiersStates : KeyReleased(m) /\ UNCHANGED aux
    \/ OtherEvent /\ UNCHANGED aux
    \/ TimePasses /\ UNCHANGED aux

Spec == Init /\ [][Next]_vars

(***************************************************************************)
(* The same controller, constructed with any of several identifiers        *)
(***************************************************************************)
AllIDs == {"HSliderInt", "HSliderDB"}

InitIds ==
    /\ param \in [id : AllIDs, normal : {Half}, default_normal : {Half}]
    /\ is_dragging = FALSE
    /\ prev_drag_x = 0
    /\ continuous_normal = param.normal
    /\ pressed_modifiers = {}
    /\ last_click = NoClick
    /\ scalar = DEFAULT_SCALAR
    /\ modifier_scalar = DEFAULT_MODIFIER_SCALAR
    /\ modifier_keys = {"control"}
    /\ messages = << >>
    /\ drag = NoDrag
    /\ hist = "none"
    /\ other = NoOther
    /\ calc = NoCalc

SpecIds == InitIds /\ [][Next]_vars

(***************************************************************************)
(* The controller of a stepped parameter with its consumer                 *)
(* (examples/simple.rs): the application handles every ParamMoved message  *)
(* before the next event and snaps Param.normal to the Stepped-Int range.  *)
(***************************************************************************)
\* cursor positions of these runs: three inside, one pixel apart, one outside
SnapPoints ==
    { [x |-> 4, y |-> 0], [x |-> 5, y |-> 0], [x |-> 6, y |-> 0],
      [x |-> 15, y |-> 0] }

\* App::update(Message::ParamMoved(ParamID::HSliderInt)):
\* int_range.snap_normal(h_slider_state.normal())
AppUpdateSnaps ==
    /\ messages # << >>
    /\ param' = [param EXCEPT !.normal = SnapNormal(param.normal)]
    /\ messages' = Tail(messages)
    /\ UNCHANGED << is_dragging, prev_drag_x, continuous_normal,
                    pressed_modifiers, last_click, config, drag, hist, aux >>

\* App::new: the Param is created from a value of the range
InitSnap ==
    /\ param \in [id : IDs, normal : {StepNormal(2)},
                  default_normal : {StepNormal(2)}]
    /\ is_dragging = FALSE
    /\ prev_drag_x = 0
    /\ continuous_normal = param.normal
    /\ pressed_modifiers = {}
    /\ last_click = NoClick
    /\ scalar = DEFAULT_SCALAR
    /\ modifier_scalar = DEFAULT_MODIFIER_SCALAR
    /\ modifier_keys = {"control"}
    /\ messages = << >>
    /\ drag = NoDrag
    /\ hist = "none"
    /\ other = NoOther
    /\ calc = NoCalc

NextSnap ==
    \/ \E p \in SnapPoints, w \in Widths :
           messages = << >> /\ CursorMoved(p, w) /\ UNCHANGED aux
    \/ \E p \in SnapPoints, w \in Widths :
           messages = << >> /\ LeftPressed(p, w) /\ UNCHANGED aux
    \/ messages = << >> /\ LeftReleased /\ UNCHANGED aux
    \/ \E m \in ModifiersStates :
           messages = << >> /\ KeyPressed(m) /\ UNCHANGED aux
    \/ \E m \in ModifiersStates :
           messages = << >> /\ KeyReleased(m) /\ UNCHANGED aux
    \/ messages = << >> /\ OtherEvent /\ UNCHANGED aux
    \/ messages = << >> /\ TimePasses /\ UNCHANGED aux
    \/ AppUpdateSnaps

SpecSnap == InitSnap /\ [][NextSnap]_vars

(***************************************************************************)
(* Two HSlider instances with disjoint bounds that receive the same event  *)
(* stream.  The first is the widget of the variables above; the second     *)
(* keeps its own State in `other` and runs the same on_event, written as   *)
(* functions of that State.  The host delivers every press only after the  *)
(* release of the one before (other.down), and other.origin records where  *)
(* the interaction in progress started.  No key is pressed in these runs.  *)
(***************************************************************************)
\* layout.bounds().x of the second widget; its width is BoundsWidth too
OtherBoundsX == 20

TwoPoints ==
    { [x |-> 4, y |-> 0], [x |-> 5, y |-> 0], [x |-> 15, y |-> 0],
      [x |-> 24, y |-> 0], [x |-> 25, y |-> 0] }

\* Rectangle::contains of the second widget's layout.bounds()
OtherContains(w, p) ==
    /\ OtherBoundsX <= p.x /\ p.x < OtherBoundsX + w
    /\ BoundsY <= p.y /\ p.y < BoundsY + BoundsHeight

\* where a press at p starts an interaction
OriginOf(p) ==
    IF Contains(BoundsWidth, p) THEN "first"
    ELSE IF OtherContains(BoundsWidth, p) THEN "second" ELSE "outside"

\* State::new of the second widget
OtherInit ==
    [ present |-> TRUE, id |-> "HSliderDB",
      normal |-> Half, default_normal |-> Half,
      is_dragging |-> FALSE, prev_drag_x |-> 0, continuous_normal |-> Half,
      last_click |-> NoClick, messages |-> << >>,
      down |-> FALSE, origin |-> "none" ]

\* on_event of the second widget: mouse::Event::CursorMoved
OtherMoved(o, p, w) ==
    IF o.is_dragging /\ BoundsWidthOf(w) > 0
    THEN LET movement_x ==
                 MovementX(p.x, o.prev_drag_x, BoundsWidthOf(w),
                           MoveScalar({}, modifier_keys, scalar, modifier_scalar))
             normal == Accumulate(o.continuous_normal, movement_x)
         IN  [o EXCEPT !.continuous_normal = normal,
                       !.prev_drag_x = p.x,
                       !.normal = MovedNormal(normal),
                       !.messages = << o.id >>]
    ELSE [o EXCEPT !.messages = << >>]

\* on_event of the second widget: mouse::Event::ButtonPressed(Left)
OtherPressed(o, p, w) ==
    IF OtherContains(w, p)
    THEN LET click == ClickNew(p, o.last_click)
         IN  IF click.kind = "Single"
             THEN [o EXCEPT !.is_dragging = TRUE,
                            !.prev_drag_x = PressCoord(p),
                            !.last_click = click,
                            !.messages = << >>]
             ELSE [o EXCEPT !.is_dragging = MultiClickDragging(o.is_dragging),
                            !.normal = o.default_normal,
                            !.last_click = click,
                            !.messages = << o.id >>]
    ELSE [o EXCEPT !.messages = << >>]

\* on_event of the second widget: mouse::Event::ButtonReleased(Left)
OtherReleased(o) ==
    [o EXCEPT !.is_dragging = FALSE,
              !.continuous_normal = ReleaseSync(o.continuous_normal, o.normal),
              !.messages = << >>]

InitTwo ==
    /\ param \in [id : IDs, normal : {Half}, default_normal : {Half}]
    /\ is_dragging = FALSE
    /\ prev_drag_x = 0
    /\ continuous_normal = param.normal
    /\ pressed_modifiers = {}
    /\ last_click = NoClick
    /\ scalar = DEFAULT_SCALAR
    /\ modifier_scalar = DEFAULT_MODIFIER_SCALAR
    /\ modifier_keys = {"control"}
    /\ messages = << >>
    /\ drag = NoDrag
    /\ hist = "none"
    /\ other = OtherInit
    /\ calc = NoCalc

\* one CursorMoved event, handled by both widgets
TwoMoved(p) ==
    /\ CursorMoved(p, BoundsWidth)
    /\ other' = OtherMoved(other, p, BoundsWidth)
    /\ other'.continuous_normal >= 0 - MaxOver
    /\ other'.continuous_normal <= Unit + MaxOver
    /\ UNCHANGED calc

\* one ButtonPressed(Left) event, handled by both widgets
TwoPressed(p) ==
    /\ ~other.down
    /\ LeftPressed(p, BoundsWidth)
    /\ other' = [OtherPressed(other, p, BoundsWidth)
                    EXCEPT !.down = TRUE, !.origin = OriginOf(p)]
    /\ UNCHANGED calc

\* one ButtonReleased(Left) event, handled by both widgets
TwoReleased ==
    /\ LeftReleased
    /\ other' = [OtherReleased(other) EXCEPT !.down = FALSE, !.origin = "none"]
    /\ UNCHANGED calc

\* the double-click time window of both last clicks elapses
TwoTimePasses ==
    /\ \/ (last_click # NoClick /\ last_click.recent)
       \/ (other.last_click # NoClick /\ other.last_click.recent)
    /\ last_click' = IF last_click # NoClick
                       THEN [last_click EXCEPT !.recent = FALSE]
                       ELSE last_click
    /\ other' = IF other.last_click # NoClick
                  THEN [other EXCEPT !.last_click.recent = FALSE]
                  ELSE other
    /\ UNCHANGED << param, is_dragging, prev_drag_x, continuous_normal,
                    pressed_modifiers, config, messages, drag, hist, calc >>

NextTwo ==
    \/ \E p \in TwoPoints : TwoMoved(p)
    \/ \E p \in TwoPoints : TwoPressed(p)
    \/ TwoReleased
    \/ TwoTimePasses

SpecTwo == InitTwo /\ [][NextTwo]_vars

(***************************************************************************)
(* The Range family (crate::core), as the consumers in examples/ call it.  *)
(* A Normal n stands for n / Unit.  A Linear-Float value v stands for      *)
(* v / Unit, a Stepped-Int value is the integer itself and a frequency is  *)
(* in Hz.  The Logarithmic-Frequency law is computed on whole octaves      *)
(* only, where 2^x and log2 are integers, and values off that grid are not *)
(* drawn.  The Logarithmic-DB law is not modelled.  `calc` holds the last  *)
(* call: its range, its argument and the normal and value it produced.     *)
(***************************************************************************)
Ranges == {"float", "int", "freq"}

\* FloatRange::default_bipolar(): [-1, 1]
FloatMin == 0 - 1
FloatMax == 1
FloatSpan == FloatMax - FloatMin

\* FreqRange::default(): 20 Hz .. 20480 Hz, 10 octaves
FreqMin == 20
FreqOctaves == 10

RECURSIVE Pow2(_)
Pow2(k) == IF k <= 0 THEN 1 ELSE 2 * Pow2(k - 1)

\* floor(log2(q)) for q >= 1
RECURSIVE Log2(_)
Log2(q) == IF q <= 1 THEN 0 ELSE 1 + Log2(q \div 2)

FreqMax == FreqMin * Pow2(FreqOctaves)

RangeMin(r) ==
    IF r = "float" THEN FloatMin * Unit ELSE IF r = "int" THEN IntMin ELSE FreqMin

RangeMax(r) ==
    IF r = "float" THEN FloatMax * Unit ELSE IF r = "int" THEN IntMax ELSE FreqMax

\* variant: the integer below the linear position, not the nearest
ToValueIntTruncates(n) == IntMin + (n * IntSpan) \div Unit

\* IntRange::to_value
ToValueInt(n) == IntMin + NearestStep(n)

\* IntRange::to_normal
ToNormalInt(v) ==
    StepNormal((IF v < IntMin THEN IntMin ELSE IF v > IntMax THEN IntMax ELSE v) - IntMin)

\* FloatRange::to_value
ToValueFloat(n) == FloatMin * Unit + n * FloatSpan

\* FloatRange::to_normal
ToNormalFloat(v) == NormalFrom((v - FloatMin * Unit) \div FloatSpan)

\* FreqRange::to_value, for normals on whole octaves
ToValueFreq(n) == FreqMin * Pow2((n * FreqOctaves) \div Unit)

\* FreqRange::to_normal, for frequencies on whole octaves
ToNormalFreq(f) ==
    IF f <= FreqMin THEN 0
    ELSE NormalFrom((Log2(f \div FreqMin) * Unit) \div FreqOctaves)

ToValue(r, n) ==
    IF r = "float" THEN ToValueFloat(n)
    ELSE IF r = "int" THEN ToValueInt(n) ELSE ToValueFreq(n)

ToNormal(r, v) ==
    IF r = "float" THEN ToNormalFloat(v)
    ELSE IF r = "int" THEN ToNormalInt(v) ELSE ToNormalFreq(v)

\* the normals and values the calls are made with
NormalsOf(r) ==
    IF r = "freq" THEN { (k * Unit) \div FreqOctaves : k \in 0 .. FreqOctaves }
    ELSE 0 .. Unit

ValuesOf(r) ==
    IF r = "float" THEN (FloatMin * Unit - 3) .. (FloatMax * Unit + 3)
    ELSE IF r = "int" THEN (IntMin - 2) .. (IntMax + 2)
    ELSE { FreqMin \div 2 } \cup { FreqMin * Pow2(k) : k \in 0 .. FreqOctaves + 1 }

\* the values Params are created from: below, at and above both ends
CreateValuesOf(r) ==
    IF r = "float"
    THEN { FloatMin * Unit - Unit, FloatMin * Unit - 1, FloatMin * Unit, 0,
           FloatMax * Unit, FloatMax * Unit + 1, FloatMax * Unit + Unit }
    ELSE IF r = "int"
    THEN { IntMin - 2, IntMin - 1, IntMin, 3, IntMax, IntMax + 1, IntMax + 2 }
    ELSE { FreqMin \div 2, FreqMin, 2 * FreqMin, FreqMin * Pow2(5),
           FreqMax \div 2, FreqMax, 2 * FreqMax }

Call(op, r, arg, default, normal, value) ==
    [ op |-> op, range |-> r, arg |-> arg, default |-> default,
      normal |-> normal, value |-> value ]

widget ==
    << is_dragging, prev_drag_x, pressed_modifiers, last_click, config,
       messages, drag, hist, other >>

\* range.to_value(normal)
RangeToValue(r, n) ==
    /\ calc' = Call("to_value", r, n, 0, n, ToValue(r, n))
    /\ UNCHANGED << param, continuous_normal, widget >>

\* range.to_normal(v) of the value a to_value call returned
RangeToValueToNormal ==
    /\ calc.op = "to_value"
    /\ calc' = [calc EXCEPT !.op = "to_value_to_normal",
                             !.normal = ToNormal(calc.range, calc.value)]
    /\ UNCHANGED << param, continuous_normal, widget >>

\* range.to_normal(v)
RangeToNormal(r, v) ==
    /\ calc' = Call("to_normal", r, v, 0, ToNormal(r, v), v)
    /\ UNCHANGED << param, continuous_normal, widget >>

\* range.to_value(normal) of the normal a to_normal call returned
RangeToNormalToValue ==
    /\ calc.op = "to_normal"
    /\ calc' = [calc EXCEPT !.op = "to_normal_to_value",
                             !.value = ToValue(calc.range, calc.normal)]
    /\ UNCHANGED << param, continuous_normal, widget >>

\* variant: the consumer reads the value without snapping first
KnobIntMovedNoSnap(n) ==
    /\ calc' = Call("knob_int", "int", n, 0, n, ToValueInt(n))
    /\ UNCHANGED << param, continuous_normal, widget >>

\* KnobStep::update, KnobsID::Int: snap_normal, then to_value
KnobIntMoved(n) ==
    /\ calc' = Call("knob_int", "int", n, 0, SnapNormal(n), ToValueInt(SnapNormal(n)))
    /\ UNCHANGED << param, continuous_normal, widget >>

\* variant: the Param takes the linear position of the values as it is
CreateParamUnclamped(r, v, d) ==
    /\ param' = [param EXCEPT
                    !.normal = ((v - RangeMin(r)) * Unit) \div (RangeMax(r) - RangeMin(r)),
                    !.default_normal = ((d - RangeMin(r)) * Unit) \div (RangeMax(r) - RangeMin(r))]
    /\ continuous_normal' = param'.normal
    /\ calc' = Call("create_param", r, v, d, param'.normal, v)
    /\ UNCHANGED widget

\* State::new(range.create_param(id, value, default_value))
CreateParam(r, v, d) ==
    /\ param' = [param EXCEPT !.normal = ToNormal(r, v),
                              !.default_normal = ToNormal(r, d)]
    /\ continuous_normal' = param'.normal
    /\ calc' = Call("create_param", r, v, d, param'.normal, v)
    /\ UNCHANGED widget

InitRange ==
    /\ param \in [id : IDs, normal : {Half}, default_normal : {Half}]
    /\ is_dragging = FALSE
    /\ prev_drag_x = 0
    /\ continuous_normal = param.normal
    /\ pressed_modifiers = {}
    /\ last_click = NoClick
    /\ scalar = DEFAULT_SCALAR
    /\ modifier_scalar = DEFAULT_MODIFIER_SCALAR
    /\ modifier_keys = {"control"}
    /\ messages = << >>
    /\ drag = NoDrag
    /\ hist = "none"
    /\ other = NoOther
    /\ calc = NoCalc

NextRange ==
    \/ \E r \in Ranges : \E n \in NormalsOf(r) : RangeToValue(r, n)
    \/ RangeToValueToNormal
    \/ \E r \in Ranges : \E v \in ValuesOf(r) : RangeToNormal(r, v)
    \/ RangeToNormalToValue
    \/ \E n \in 0 .. Unit : KnobIntMoved(n)

SpecRange == InitRange /\ [][NextRange]_vars

\* Params are created from values inside and outside their range
NextCreate ==
    \/ \E r \in Ranges : \E v \in CreateValuesOf(r) : RangeToNormal(r, v)
    \/ \E r \in Ranges : \E v, d \in CreateValuesOf(r) : CreateParam(r, v, d)

SpecCreate == InitRange /\ [][NextCreate]_vars

(***************************************************************************)
(* HSlider::modifier_keys configures any set of modifiers, the empty one   *)
(* included, and the keyboard reports any set of pressed modifiers.        *)
(***************************************************************************)
WideKeys == {"control", "shift"}

KeyPoints == { [x |-> 4, y |-> 0], [x |-> 5, y |-> 0] }

InitKeys ==
    /\ param \in [id : IDs, normal : {Half}, default_normal : {Half}]
    /\ is_dragging = FALSE
    /\ prev_drag_x = 0
    /\ continuous_normal = param.normal
    /\ pressed_modifiers = {}
    /\ last_click = NoClick
    /\ scalar = DEFAULT_SCALAR
    /\ modifier_scalar = DEFAULT_MODIFIER_SCALAR
    /\ modifier_keys \in SUBSET WideKeys
    /\ messages = << >>
    /\ drag = NoDrag
    /\ hist = "none"
    /\ other = NoOther
    /\ calc = NoCalc

NextKeys ==
    \/ \E p \in KeyPoints : CursorMoved(p, BoundsWidth) /\ UNCHANGED aux
    \/ \E p \in KeyPoints : LeftPressed(p, BoundsWidth) /\ UNCHANGED aux
    \/ LeftReleased /\ UNCHANGED aux
    \/ \E m \in SUBSET WideKeys : KeyPressed(m) /\ UNCHANGED aux
    \/ \E m \in SUBSET WideKeys : KeyReleased(m) /\ UNCHANGED aux
    \/ TimePasses /\ UNCHANGED aux

SpecKeys == InitKeys /\ [][NextKeys]_vars

(***************************************************************************)
(* The pointer's travel during a drag.  `calc` is a history of the pointer *)
(* here: x is where the last mouse event found it, from is where the last  *)
(* processed move or drag-starting press found it, zero tells that the     *)
(* moves since then were dropped for zero-width bounds, and applied,       *)
(* travel and skipped describe the last processed move: the displacement   *)
(* from `from`, the displacement from the event before, and whether that   *)
(* event was a dropped move.  No key is pressed.                           *)
(***************************************************************************)
Pointer(from, x, zero, applied, travel, skipped) ==
    [ op |-> "pointer", from |-> from, x |-> x, zero |-> zero,
      applied |-> applied, travel |-> travel, skipped |-> skipped ]

InitZero ==
    /\ param \in [id : IDs, normal : {Half}, default_normal : {Half}]
    /\ is_dragging = FALSE
    /\ prev_drag_x = 0
    /\ continuous_normal = param.normal
    /\ pressed_modifiers = {}
    /\ last_click = NoClick
    /\ scalar = DEFAULT_SCALAR
    /\ modifier_scalar = DEFAULT_MODIFIER_SCALAR
    /\ modifier_keys = {"control"}
    /\ messages = << >>
    /\ drag = NoDrag
    /\ hist = "none"
    /\ other = NoOther
    /\ calc = Pointer(0, 0, FALSE, 0, 0, FALSE)

ZeroMoved(p, w) ==
    /\ CursorMoved(p, w)
    /\ calc' = IF is_dragging
               THEN IF w > 0
                    THEN Pointer(p.x, p.x, FALSE, p.x - calc.from, p.x - calc.x, calc.zero)
                    ELSE [calc EXCEPT !.x = p.x, !.zero = TRUE]
               ELSE [calc EXCEPT !.x = p.x]
    /\ UNCHANGED other

ZeroPressed(p, w) ==
    /\ LeftPressed(p, w)
    /\ calc' = IF Contains(w, p) /\ ClickNew(p, last_click).kind = "Single"
               THEN Pointer(p.x, p.x, FALSE, 0, 0, FALSE)
               ELSE [calc EXCEPT !.x = p.x]
    /\ UNCHANGED other

ZeroReleased ==
    /\ LeftReleased
    /\ calc' = [calc EXCEPT !.zero = FALSE]
    /\ UNCHANGED other

NextZero ==
    \/ \E p \in Points, w \in Widths : ZeroMoved(p, w)
    \/ \E p \in Points, w \in Widths : ZeroPressed(p, w)
    \/ ZeroReleased
    \/ TimePasses /\ UNCHANGED aux

SpecZero == InitZero /\ [][NextZero]_vars

(***************************************************************************)
(* The application writes Param.normal between events, through the         *)
(* &mut Normal that State::normal() returns or through the public param    *)
(* field, while the widget is Idle.                                        *)
(***************************************************************************)
AppNormals == {0, Unit}

\* *state.normal() = n
AppWritesNormal(n) ==
    /\ ~is_dragging
    /\ param' = [param EXCEPT !.normal = n]
    /\ UNCHANGED << is_dragging, prev_drag_x, continuous_normal, pressed_modifiers,
                    last_click, config, messages, drag, hist >>

NextApp ==
    \/ Next
    \/ \E n \in AppNormals : AppWritesNormal(n) /\ UNCHANGED aux

SpecApp == Init /\ [][NextApp]_vars

(***************************************************************************)
(* The Dual-Axis Controller (XY pad): two Params and one shared gesture.   *)
(* The x axis is the single-axis controller of the variables above; the y  *)
(* axis keeps its Param, accumulator and previous pointer coordinate in    *)
(* `other` and follows the same transitions with the y component of the    *)
(* pointer over the bounds height.  The host delivers a press only after   *)
(* the release of the one before (other.down); no key is pressed.          *)
(***************************************************************************)
XYPoints ==
    { [x |-> 4, y |-> 4], [x |-> 5, y |-> 4], [x |-> 4, y |-> 5],
      [x |-> 5, y |-> 5], [x |-> 15, y |-> 4] }

\* default_normal of the y Param, different from the x Param's
YDefault == Unit \div 5

YInit ==
    [ present |-> TRUE, id |-> "XYPadFloatY",
      normal |-> YDefault, default_normal |-> YDefault,
      prev_drag_y |-> 0, continuous_normal |-> YDefault, down |-> FALSE ]

\* variant: the y axis also takes the x component of the pointer delta
YDeltaDiagonal(p, o) == (p.y - o.prev_drag_y) + (p.x - prev_drag_x)

\* y component of the 2-D pointer delta
YDelta(p, o) == p.y - o.prev_drag_y

\* variant: the y axis is reset to the x axis' default
YResetToXDefault(o) == param.default_normal

\* double-click: the y Param's own default_normal
YResetNormal(o) == o.default_normal

\* pointer-up: the y Param's own clamped normal
YReleaseSync(o) == o.normal

\* pointer-move while Dragging, y axis
YMoved(o, p) ==
    LET s == MoveScalar(pressed_modifiers, modifier_keys, scalar, modifier_scalar)
        movement_y == (YDelta(p, o) * s * Unit) \div (BoundsHeight * ScalarDen)
        normal == o.continuous_normal + movement_y
    IN  [o EXCEPT !.continuous_normal = normal,
                  !.prev_drag_y = p.y,
                  !.normal = NormalFrom(normal)]

InitXY ==
    /\ param \in [id : IDs, normal : {Half}, default_normal : {Half}]
    /\ is_dragging = FALSE
    /\ prev_drag_x = 0
    /\ continuous_normal = param.normal
    /\ pressed_modifiers = {}
    /\ last_click = NoClick
    /\ scalar = DEFAULT_SCALAR
    /\ modifier_scalar = DEFAULT_MODIFIER_SCALAR
    /\ modifier_keys = {"control"}
    /\ messages = << >>
    /\ drag = NoDrag
    /\ hist = "none"
    /\ other = YInit
    /\ calc = NoCalc

\* pointer-move: both accumulators from the 2-D pointer delta
XYMoved(p) ==
    /\ CursorMoved(p, BoundsWidth)
    /\ other' = IF is_dragging THEN YMoved(other, p) ELSE other
    /\ other'.continuous_normal >= 0 - MaxOver
    /\ other'.continuous_normal <= Unit + MaxOver
    /\ UNCHANGED calc

\* pointer-down: a single click starts the shared drag, a double or triple
\* click resets both axes
XYPressed(p) ==
    /\ ~other.down
    /\ LeftPressed(p, BoundsWidth)
    /\ other' =
         IF ~Contains(BoundsWidth, p) THEN [other EXCEPT !.down = TRUE]
         ELSE IF ClickNew(p, last_click).kind = "Single"
         THEN [other EXCEPT !.down = TRUE, !.prev_drag_y = p.y]
         ELSE [other EXCEPT !.down = TRUE, !.normal = YResetNormal(other)]
    /\ UNCHANGED calc

\* pointer-up: both accumulators are resynchronized
XYReleased ==
    /\ LeftReleased
    /\ other' = [other EXCEPT !.down = FALSE,
                              !.continuous_normal = YReleaseSync(other)]
    /\ UNCHANGED calc

NextXY ==
    \/ \E p \in XYPoints : XYMoved(p)
    \/ \E p \in XYPoints : XYPressed(p)
    \/ XYReleased
    \/ TimePasses /\ UNCHANGED aux

SpecXY == InitXY /\ [][NextXY]_vars

(***************************************************************************)
(* Normal (crate::core) as the widget and the tick mark renderer use it:   *)
(* `normal.into()` in on_event, and scale / scale_inv of a tick mark       *)
(* position over the bounds width in draw_horizontal_lines.  scale and     *)
(* scale_inv results stand for pixels * Unit.                              *)
(***************************************************************************)
\* Normal::scale
Scale(n, span) == n * span

\* Normal::scale_inv
ScaleInv(n, span) == span * Unit - Scale(n, span)

\* f32::round of v / Unit
RoundPx(v) ==
    IF v >= 0 THEN (2 * v + Unit) \div (2 * Unit)
    ELSE 0 - ((2 * (0 - v) + Unit) \div (2 * Unit))

\* the floats a Normal is made from
NormalArgs == (0 - Unit) .. (2 * Unit)

\* the positions of a tick_marks::Group
TickNormals == { (k * Unit) \div 20 : k \in 0 .. 20 }

\* bounds_width of the drawn widget
Spans == {0, 1, BoundsWidth}

\* width of a tick mark line, so that start_x = bounds_x - 1
TickWidth == 2

\* self.state.param.normal = normal.into()
NormalInto(v) ==
    /\ calc' = [op |-> "normal", arg |-> v, normal |-> MovedNormal(v)]
    /\ UNCHANGED << param, continuous_normal, widget >>

\* draw_horizontal_lines: the x of one tick mark
DrawHorizontalLines(n, span, inverse) ==
    LET start_x == BoundsX - TickWidth \div 2
        offset == IF inverse THEN ScaleInv(n, span) ELSE Scale(n, span)
    IN  /\ calc' = [op |-> "tick", normal |-> n, span |-> span,
                     inverse |-> inverse, offset |-> offset,
                     x |-> RoundPx(start_x * Unit + offset)]
        /\ UNCHANGED << param, continuous_normal, widget >>

NextNormal ==
    \/ \E v \in NormalArgs : NormalInto(v)
    \/ \E n \in TickNormals, span \in Spans, inverse \in BOOLEAN :
           DrawHorizontalLines(n, span, inverse)

SpecNormal == InitRange /\ [][NextNormal]_vars

(***************************************************************************)
(* The HSlider value itself: HSlider::new and its builder methods, and     *)
(* what Widget::width, Widget::layout and the renderer's draw make of the  *)
(* configured width, height and tick marks.  `calc` holds the configured   *)
(* fields and the result `out` of the last call.                           *)
(***************************************************************************)
Fill == [kind |-> "Fill", units |-> 0]
Shrink == [kind |-> "Shrink", units |-> 0]
Units(n) == [kind |-> "Units", units |-> n]

Lengths == {Fill, Shrink} \cup { Units(n) : n \in 0 .. BoundsHeight }

Heights == {Fill, Units(BoundsHeight)}

\* limits.max() handed to layout by the container
LimitsMax == { [width |-> w, height |-> h] : w \in {0, BoundsWidth}, h \in {BoundsHeight} }

\* tick_marks::Group values: their positions
TickGroups == { {Half}, {0, Half, Unit} }

Styles == {"Texture", "Classic", "Rect", "RectBipolar"}

PrimitiveNone == [kind |-> "None", positions |-> {}]

\* layout::Limits::width / height followed by resolve(Size::ZERO), min = 0
Resolve(length, max) ==
    IF length.kind = "Fill" THEN max
    ELSE IF length.kind = "Shrink" THEN 0
    ELSE IF length.units > max THEN max ELSE length.units

\* graphics draw_tick_marks
draw_tick_marks(tick_marks, style) == PrimitiveNone

\* the tick mark primitive of draw_texture_style and its siblings
TickMarksPrimitive(tick_marks, tick_mark_style) ==
    IF tick_marks.some
    THEN IF tick_mark_style.some
         THEN draw_tick_marks(tick_marks.group, tick_mark_style)
         ELSE PrimitiveNone
    ELSE PrimitiveNone

None == [some |-> FALSE]
Some(g) == [some |-> TRUE, group |-> g]

\* HSlider::new
HSliderNew ==
    /\ calc' = [op |-> "new", width |-> Fill, height |-> Units(BoundsHeight),
                 tick_marks |-> None, arg |-> 0, out |-> 0]
    /\ UNCHANGED << param, continuous_normal, widget >>

\* HSlider::width
HSliderWidth(width) ==
    /\ calc.op # "none"
    /\ calc' = [calc EXCEPT !.op = "width", !.width = width, !.arg = 0, !.out = 0]
    /\ UNCHANGED << param, continuous_normal, widget >>

\* HSlider::height
HSliderHeight(height) ==
    /\ calc.op # "none"
    /\ calc' = [calc EXCEPT !.op = "height", !.height = height, !.arg = 0, !.out = 0]
    /\ UNCHANGED << param, continuous_normal, widget >>

\* HSlider::tick_marks
HSliderTickMarks(tick_marks) ==
    /\ calc.op # "none"
    /\ calc' = [calc EXCEPT !.op = "tick_marks", !.tick_marks = Some(tick_marks),
                            !.arg = 0, !.out = 0]
    /\ UNCHANGED << param, continuous_normal, widget >>

\* Widget::width
WidgetWidth ==
    /\ calc.op # "none"
    /\ calc' = [calc EXCEPT !.op = "Widget::width", !.arg = 0, !.out = Shrink]
    /\ UNCHANGED << param, continuous_normal, widget >>

\* Widget::layout
WidgetLayout(max) ==
    /\ calc.op # "none"
    /\ calc' = [calc EXCEPT !.op = "Widget::layout", !.arg = max,
                            !.out = [width |-> Resolve(calc.width, max.width),
                                     height |-> Resolve(calc.height, max.height)]]
    /\ UNCHANGED << param, continuous_normal, widget >>

\* Widget::draw, Renderer::draw and the draw function of the active style
WidgetDraw(style, tick_mark_style) ==
    /\ calc.op # "none"
    /\ calc' = [calc EXCEPT
                   !.op = "Widget::draw",
                   !.arg = [style |-> style, tick_mark_style |-> tick_mark_style],
                   !.out = [tick_marks |-> TickMarksPrimitive(calc.tick_marks, tick_mark_style),
                            normal |-> param.normal,
                            is_dragging |-> is_dragging]]
    /\ UNCHANGED << param, continuous_normal, widget >>

NextBuild ==
    \/ HSliderNew
    \/ \E width \in Lengths : HSliderWidth(width)
    \/ \E height \in Heights : HSliderHeight(height)
    \/ \E tick_marks \in TickGroups : HSliderTickMarks(tick_marks)
    \/ WidgetWidth
    \/ \E max \in LimitsMax : WidgetLayout(max)
    \/ \E style \in Styles, tick_mark_style \in {None, Some("default")} :
           WidgetDraw(style, tick_mark_style)

SpecBuild == InitRange /\ [][NextBuild]_vars

(***************************************************************************)
(* Steps of on_event, as the claims name them                              *)
(***************************************************************************)
\* the unit interval, written out independently of NormalFrom
Clamp01(v) == IF v < 0 THEN 0 ELSE IF v > Unit THEN Unit ELSE v

Abs(n) == IF n < 0 THEN 0 - n ELSE n

\* the click a press at p would be classified as
IsMultiClick(p) ==
    /\ last_click # NoClick
    /\ last_click.position = p
    /\ last_click.recent

\* a pointer-move while Dragging that passes the width guard
ProcessedMove(p, w) == is_dragging /\ w > 0 /\ CursorMoved(p, w)

\* a left-button press inside the bounds, double or triple click
MultiClickPress(p, w) == Contains(w, p) /\ IsMultiClick(p) /\ LeftPressed(p, w)

\* a left-button press inside the bounds, single click
SingleClickPress(p, w) == Contains(w, p) /\ ~IsMultiClick(p) /\ LeftPressed(p, w)

(***************************************************************************)
(* C1: after any sequence of pointer, button and keyboard events,          *)
(* Param.normal is inside [0, 1], also while the accumulator               *)
(* continuous_normal lies outside it.                                      *)
(***************************************************************************)
C1_NormalInUnitInterval == param.normal >= 0 /\ param.normal <= Unit

C1_Witness ==
    /\ is_dragging
    /\ messages # << >>
    /\ continuous_normal > Unit
    /\ param.normal = Unit

(***************************************************************************)
(* C2: a pointer-move while Dragging with positive bounds width and no     *)
(* matching modifier adds ((x - prev_drag_x) / width) * scalar to the      *)
(* accumulator, writes the clamped accumulator to Param.normal, sets       *)
(* prev_drag_x to x and emits one notification carrying Param.id; with     *)
(* scalar 0.98, from normal 0.5, a move of +0.1 width gives 0.5 + 0.098.   *)
(***************************************************************************)
C2_MoveAccumulates ==
    [][\A p \in Points, w \in Widths :
        (ProcessedMove(p, w) /\ ~(modifier_keys \subseteq pressed_modifiers)) =>
            /\ (continuous_normal' - continuous_normal) * w * ScalarDen
                   = (p.x - prev_drag_x) * scalar * Unit
            /\ param'.normal = Clamp01(continuous_normal')
            /\ prev_drag_x' = p.x
            /\ messages' = << param.id >>
            /\ ( /\ scalar * 100 = 98 * ScalarDen
                 /\ continuous_normal * 2 = Unit
                 /\ (p.x - prev_drag_x) * 10 = w )
               => param'.normal * 1000 = (500 + 98) * Unit ]_vars

C2_Witness ==
    /\ is_dragging
    /\ messages = << param.id >>
    /\ ~(modifier_keys \subseteq pressed_modifiers)
    /\ param.normal * 1000 = (500 + 98) * Unit
    /\ continuous_normal = param.normal

(***************************************************************************)
(* C3: with the configured modifier held, a pointer-move while Dragging    *)
(* changes the accumulator by delta * modifier_scalar instead of           *)
(* delta * scalar; with the defaults 0.02 and 0.98 the change is           *)
(* proportionally smaller than the one the same delta gives without it.    *)
(***************************************************************************)
C3_ModifierScalar ==
    [][\A p \in Points, w \in Widths :
        (ProcessedMove(p, w) /\ modifier_keys \subseteq pressed_modifiers) =>
            LET d == continuous_normal' - continuous_normal
                delta == p.x - prev_drag_x
            IN  /\ d * w * ScalarDen = delta * modifier_scalar * Unit
                /\ ( /\ scalar = DEFAULT_SCALAR
                     /\ modifier_scalar = DEFAULT_MODIFIER_SCALAR
                     /\ delta # 0 )
                   => /\ Abs(d) * w * ScalarDen < Abs(delta) * scalar * Unit
                      /\ d * 98 * w * ScalarDen = 2 * delta * scalar * Unit
      ]_vars

C3_Witness ==
    /\ is_dragging
    /\ messages = << param.id >>
    /\ modifier_keys \subseteq pressed_modifiers
    /\ drag.pure /\ drag.moved
    /\ (continuous_normal - drag.a0) * 100 * BoundsWidth
           = 2 * (prev_drag_x - drag.x0) * Unit
    /\ continuous_normal # drag.a0

(***************************************************************************)
(* C4: a left-button press inside the bounds classified as a double or     *)
(* triple click sets Param.normal to default_normal, emits exactly one     *)
(* notification and leaves the controller not Dragging.                    *)
(***************************************************************************)
C4_MultiClickResets ==
    [][\A p \in Points, w \in Widths :
        MultiClickPress(p, w) =>
            /\ param'.normal = param.default_normal
            /\ messages' = << param.id >>
            /\ ~is_dragging' ]_vars

C4_Witness ==
    /\ last_click # NoClick
    /\ last_click.kind = "Double"
    /\ last_click.recent
    /\ messages = << param.id >>
    /\ ~is_dragging
    /\ param.normal = param.default_normal
    /\ continuous_normal # param.normal

(***************************************************************************)
(* C5: after a drag that pushed the accumulator past the upper endpoint    *)
(* and a pointer-up, the accumulator equals the clamped Param.normal       *)
(* (1.0); in the next drag the first negative-delta move decreases         *)
(* Param.normal.                                                           *)
(***************************************************************************)
C5_ReleaseResyncs ==
    /\ hist = "resynced" =>
           /\ continuous_normal = param.normal
           /\ param.normal = Unit
           /\ ~is_dragging
    /\ hist = "back" => param.normal < Unit

C5_Witness == hist = "back" /\ is_dragging /\ messages # << >>

(***************************************************************************)
(* C6: within one drag with unchanged modifiers and unchanged positive     *)
(* bounds width, Param.normal after every move is                          *)
(* clamp(a0 + scalar * (x - x_press) / width), a0 the accumulator at       *)
(* press: a function of the pointer position alone, so that after an       *)
(* overshoot the normal leaves the endpoint exactly where it reached it.   *)
(***************************************************************************)
C6_NormalFollowsPointer ==
    (drag.pure /\ drag.moved) =>
        LET s == IF modifier_keys \subseteq drag.mods
                   THEN modifier_scalar ELSE scalar
            travel == s * (prev_drag_x - drag.x0) * Unit
        IN  /\ travel % (BoundsWidth * ScalarDen) = 0
            /\ param.normal
                 = Clamp01(drag.a0 + travel \div (BoundsWidth * ScalarDen))

C6_Witness ==
    /\ drag.pure /\ drag.moved /\ drag.over
    /\ is_dragging
    /\ param.normal > 0 /\ param.normal < Unit

(***************************************************************************)
(* C7: a left-button press inside the bounds classified as a single click  *)
(* moves the controller to Dragging and captures the pointer x as          *)
(* prev_drag_x; the accumulator and Param.normal are unchanged and no      *)
(* notification is emitted.                                                *)
(***************************************************************************)
C7_SingleClickStartsDrag ==
    [][\A p \in Points, w \in Widths :
        SingleClickPress(p, w) =>
            /\ is_dragging'
            /\ prev_drag_x' = p.x
            /\ continuous_normal' = continuous_normal
            /\ param' = param
            /\ messages' = << >> ]_vars

C7_Witness ==
    /\ is_dragging
    /\ drag.pure /\ ~drag.moved
    /\ last_click # NoClick /\ last_click.kind = "Single"
    /\ prev_drag_x = last_click.position.x
    /\ prev_drag_x # last_click.position.y
    /\ messages = << >>

(***************************************************************************)
(* C8 (as claimed): once Dragging, the controller leaves the Dragging      *)
(* state only on a pointer-up; any other event leaves it Dragging.         *)
(***************************************************************************)
C8_OnlyReleaseEndsDrag ==
    [][(is_dragging /\ ~LeftReleased) => is_dragging']_vars

(***************************************************************************)
(* C8 (amended): once Dragging, the controller leaves the Dragging state   *)
(* only on a pointer-up or on a left-button press inside the bounds that   *)
(* is classified as a double or triple click.                              *)
(***************************************************************************)
C8_ReleaseOrMultiClickEndsDrag ==
    [][ ( /\ is_dragging
          /\ ~LeftReleased
          /\ ~(\E p \in Points, w \in Widths : MultiClickPress(p, w)) )
        => is_dragging' ]_vars

C8_Witness ==
    /\ is_dragging
    /\ last_click # NoClick /\ ~last_click.recent
    /\ pressed_modifiers = Keys
    /\ drag = ZeroWidthMove
    /\ continuous_normal # Half

(***************************************************************************)
(* C9: exactly one notification is appended by every pointer-move          *)
(* processed while Dragging (one that passes the width guard), whether or  *)
(* not the clamped Param.normal changed, and by every double/triple-click  *)
(* press inside the bounds; no other event appends one.  The Vec of a call *)
(* is consumed before the next event, so notifications are in event order. *)
(***************************************************************************)
C9_OneNotificationPerQualifyingEvent ==
    [][ /\ \A p \in Points, w \in Widths :
              (ProcessedMove(p, w) \/ MultiClickPress(p, w))
                  => messages' = << param.id >>
        /\ (messages' # << >> /\ ~TimePasses) =>
              /\ Len(messages') = 1
              /\ \E p \in Points, w \in Widths :
                     ProcessedMove(p, w) \/ MultiClickPress(p, w) ]_vars

C9_Witness ==
    /\ is_dragging
    /\ Len(messages) = 1
    /\ drag.pure /\ drag.moved
    /\ drag.a0 > Unit
    /\ continuous_normal > drag.a0
    /\ param.normal = Unit

(***************************************************************************)
(* C10: a pointer-move while Dragging with zero-width bounds is a          *)
(* zero-movement step: Param.normal and the accumulator are unchanged      *)
(* (and the division by the width is not evaluated).                       *)
(***************************************************************************)
C10_ZeroWidthMoveIsNoMovement ==
    [][\A p \in Points :
        (is_dragging /\ CursorMoved(p, 0)) =>
            /\ param' = param
            /\ continuous_normal' = continuous_normal
            /\ is_dragging' ]_vars

C10_Witness ==
    /\ is_dragging
    /\ drag = ZeroWidthMove
    /\ messages = << >>

(***************************************************************************)
(* C11: a modifier key press or release, Idle or Dragging, only replaces   *)
(* pressed_modifiers: Param.normal, the accumulator, is_dragging,          *)
(* prev_drag_x and last_click are unchanged and no notification is         *)
(* emitted; in mid-drag it changes only the scalar of the later moves.     *)
(***************************************************************************)
C11_KeyEventOnlySetsModifiers ==
    [][\A m \in ModifiersStates :
        (KeyPressed(m) \/ KeyReleased(m)) =>
            /\ pressed_modifiers' = m
            /\ param' = param
            /\ continuous_normal' = continuous_normal
            /\ is_dragging' = is_dragging
            /\ prev_drag_x' = prev_drag_x
            /\ last_click' = last_click
            /\ config' = config
            /\ messages' = << >> ]_vars

C11_Witness ==
    /\ is_dragging
    /\ pressed_modifiers = {"control"}
    /\ drag = NoDrag
    /\ messages = << >>
    /\ continuous_normal > Unit
    /\ param.normal = Unit
    /\ last_click # NoClick /\ last_click.recent

(***************************************************************************)
(* C13: the controller writes Param.normal only in a pointer-move while    *)
(* Dragging and in a double/triple-click press inside the bounds; a        *)
(* single-click press, a pointer-up, a key event, a move while Idle and a  *)
(* press outside the bounds leave Param.normal unchanged.                  *)
(***************************************************************************)
C13_NormalWrittenOnlyByMoveAndReset ==
    [][ /\ param'.normal # param.normal =>
              \E p \in Points, w \in Widths :
                  ProcessedMove(p, w) \/ MultiClickPress(p, w)
        /\ \A p \in Points, w \in Widths :
              ( \/ SingleClickPress(p, w)
                \/ (~Contains(w, p) /\ LeftPressed(p, w))
                \/ (~is_dragging /\ CursorMoved(p, w)) )
                  => param' = param
        /\ LeftReleased => param' = param
        /\ \A m \in ModifiersStates :
              (KeyPressed(m) \/ KeyReleased(m)) => param' = param ]_vars

C13_Witness ==
    /\ ~is_dragging
    /\ messages = << >>
    /\ param.normal # param.default_normal
    /\ param.normal # 0 /\ param.normal # Unit
    /\ continuous_normal = param.normal
    /\ pressed_modifiers = {"control"}
    /\ last_click # NoClick /\ last_click.kind = "Single"
    /\ prev_drag_x # last_click.position.x

(***************************************************************************)
(* C14: the drag controller never snaps: after a pointer-move it handled,  *)
(* Param.normal is exactly the clamped accumulator, which may lie strictly *)
(* between two step positions of a Stepped-Int range (only a snap_normal   *)
(* call of the consumer would move it onto a step).                        *)
(***************************************************************************)
C14_MoveWritesUnsnappedNormal ==
    [][\A p \in Points, w \in Widths :
        ProcessedMove(p, w) => param'.normal = Clamp01(continuous_normal') ]_vars

C14_Witness ==
    /\ is_dragging
    /\ messages = << param.id >>
    /\ param.normal = continuous_normal
    /\ \E k \in 0 .. IntSpan - 1 :
           /\ k * Unit < param.normal * IntSpan
           /\ param.normal * IntSpan < (k + 1) * Unit

(***************************************************************************)
(* C16: while Dragging a pointer-move whose cursor position is outside     *)
(* the bounds is not rejected: it is processed like any other move         *)
(* (delta from prev_drag_x, scaled, accumulated, notified) and the result  *)
(* is clamped into [0, 1].                                                 *)
(***************************************************************************)
C16_OutsideMoveIsProcessed ==
    [][\A p \in Points, w \in Widths :
        (ProcessedMove(p, w) /\ ~Contains(w, p)) =>
            LET s == IF modifier_keys \subseteq pressed_modifiers
                       THEN modifier_scalar ELSE scalar
            IN  /\ (continuous_normal' - continuous_normal) * w * ScalarDen
                       = (p.x - prev_drag_x) * s * Unit
                /\ param'.normal = Clamp01(continuous_normal')
                /\ param'.normal >= 0 /\ param'.normal <= Unit
                /\ prev_drag_x' = p.x
                /\ is_dragging'
                /\ messages' = << param.id >> ]_vars

C16_Witness ==
    /\ is_dragging
    /\ messages = << param.id >>
    /\ prev_drag_x >= BoundsX + BoundsWidth
    /\ param.normal = Clamp01(continuous_normal)
    /\ param.normal > 0 /\ param.normal < Unit

(***************************************************************************)
(* C12: every change notification carries the id the Param was             *)
(* constructed with: no event modifies Param.id, and every message of a    *)
(* call is that id, so all notifications of one widget carry the same id.  *)
(***************************************************************************)
C12_NotificationsCarryParamId ==
    [][ /\ param'.id = param.id
        /\ \A i \in 1 .. Len(messages') : messages'[i] = param.id ]_vars

C12_Witness ==
    /\ param.id = "HSliderDB"
    /\ messages = << "HSliderDB" >>
    /\ ~is_dragging
    /\ param.normal = param.default_normal
    /\ continuous_normal # param.normal

(***************************************************************************)
(* C15: when the consumer calls snap_normal after every change             *)
(* notification of a stepped parameter, Param.normal is a step position    *)
(* after each handled notification; snapping does not write the            *)
(* accumulator, so within a drag the snapped normal is the step nearest to *)
(* clamp(a0 + scalar * (x - x_press) / width): repeated small moves in one *)
(* direction (each below half a step) carry it to the next step.           *)
(***************************************************************************)
C15_SnappedDragStillAdvances ==
    /\ messages = << >> => \E k \in 0 .. IntSpan : param.normal * IntSpan = k * Unit
    /\ (drag.pure /\ drag.moved /\ messages = << >>) =>
           LET s == IF modifier_keys \subseteq drag.mods
                      THEN modifier_scalar ELSE scalar
               v == Clamp01(drag.a0
                            + (s * (prev_drag_x - drag.x0) * Unit)
                                  \div (BoundsWidth * ScalarDen))
           IN  /\ 2 * Abs(param.normal - v) * IntSpan <= Unit
               /\ continuous_normal
                    = drag.a0 + (s * (prev_drag_x - drag.x0) * Unit)
                                    \div (BoundsWidth * ScalarDen)

C15_Witness ==
    /\ is_dragging
    /\ messages = << >>
    /\ drag.pure /\ drag.moved /\ drag.small
    /\ \E k \in 0 .. IntSpan - 1 :
           /\ drag.a0 * IntSpan = k * Unit
           /\ param.normal * IntSpan = (k + 1) * Unit

(***************************************************************************)
(* C17: two HSlider instances with disjoint bounds receive the same event  *)
(* stream, every press followed by a release before the next press: at     *)
(* most one of them is Dragging at any time, and an interaction that       *)
(* starts inside one widget never changes the Param.normal of the other    *)
(* nor makes it emit a notification.                                       *)
(***************************************************************************)
C17_DisjointWidgetsDoNotInterfere ==
    [][ /\ ~(is_dragging' /\ other'.is_dragging)
        /\ (other.origin = "first" \/ other'.origin = "first") =>
               /\ other'.normal = other.normal
               /\ other'.messages = << >>
        /\ (other.origin = "second" \/ other'.origin = "second") =>
               /\ param'.normal = param.normal
               /\ messages' = << >> ]_vars

C17_Witness ==
    /\ other.origin = "second"
    /\ other.is_dragging /\ ~is_dragging
    /\ other.messages = << other.id >>
    /\ other.normal # Half /\ other.normal # param.normal
    /\ param.normal # Half
    /\ messages = << >>

(***************************************************************************)
(* C18, as stated: for every Range variant and every valid Normal n,       *)
(* to_normal(to_value(n)) reproduces n, and to_value(to_normal(v))         *)
(* reproduces v within the precision of the value type.                    *)
(***************************************************************************)
InRange(r, v) == RangeMin(r) <= v /\ v <= RangeMax(r)

C19_SteppedIntSnapsToNearestStep ==
    /\ (calc.op = "to_normal_to_value" /\ calc.range = "int") =>
           /\ (calc.arg \in IntMin .. IntMax) => calc.value = calc.arg
           /\ calc.arg = 3 => (calc.value = 3 /\ calc.normal * 5 = 3 * Unit)
    /\ calc.op = "knob_int" =>
           /\ \E k \in 0 .. IntSpan : calc.normal * IntSpan = k * Unit
           /\ 2 * Abs(calc.normal - calc.arg) * IntSpan <= Unit
           /\ (2 * 5 * calc.arg > 5 * Unit /\ 2 * 5 * calc.arg < 7 * Unit) =>
                  (calc.normal = ToNormalInt(3) /\ calc.value = 3)

C19_Witness ==
    /\ calc.op = "knob_int"
    /\ 2 * 5 * calc.arg > 5 * Unit /\ 2 * 5 * (calc.arg - 1) <= 5 * Unit
    /\ calc.normal * 5 = 3 * Unit
    /\ calc.value = 3

(***************************************************************************)
(* C20: to_normal of a value outside [min,max] returns the nearest valid   *)
(* Normal, 0 below min and 1 above max, and a Param created from an        *)
(* out-of-range initial or default value has both normals inside [0,1].    *)
(***************************************************************************)
C20_OutOfRangeValuesClamp ==
    /\ calc.op = "to_normal" =>
           /\ calc.normal \in 0 .. Unit
           /\ calc.arg < RangeMin(calc.range) => calc.normal = 0
           /\ calc.arg > RangeMax(calc.range) => calc.normal = Unit
    /\ calc.op = "create_param" =>
           /\ param.normal \in 0 .. Unit
           /\ param.default_normal \in 0 .. Unit
           /\ calc.arg < RangeMin(calc.range) => param.normal = 0
           /\ calc.arg > RangeMax(calc.range) => param.normal = Unit
           /\ calc.default < RangeMin(calc.range) => param.default_normal = 0
           /\ calc.default > RangeMax(calc.range) => param.default_normal = Unit
           /\ continuous_normal = param.normal

C20_Witness ==
    /\ calc.op = "create_param"
    /\ calc.arg > RangeMax(calc.range) /\ param.normal = Unit
    /\ calc.default < RangeMin(calc.range) /\ param.default_normal = 0
    /\ continuous_normal = Unit

(***************************************************************************)
(* C21: a Normal made from any number is that number clamped into [0,1],   *)
(* and for every Normal and span scale(span) = value * span and            *)
(* scale_inv(span) = span - scale(span), so the two add up to span.        *)
(***************************************************************************)
C21_NormalClampsAndScales ==
    /\ calc.op = "normal" =>
           /\ calc.normal \in 0 .. Unit
           /\ calc.arg < 0 => calc.normal = 0
           /\ calc.arg > Unit => calc.normal = Unit
           /\ calc.arg \in 0 .. Unit => calc.normal = calc.arg
    /\ calc.op = "tick" =>
           /\ Scale(calc.normal, calc.span) = calc.normal * calc.span
           /\ ScaleInv(calc.normal, calc.span)
                  = calc.span * Unit - Scale(calc.normal, calc.span)
           /\ Scale(calc.normal, calc.span) + ScaleInv(calc.normal, calc.span)
                  = calc.span * Unit
           /\ calc.offset = IF calc.inverse
                            THEN calc.span * Unit - calc.normal * calc.span
                            ELSE calc.normal * calc.span

C21_Witness ==
    /\ calc.op = "tick" /\ calc.inverse
    /\ calc.span = BoundsWidth
    /\ 4 * calc.normal = Unit
    /\ 4 * calc.offset = 3 * BoundsWidth * Unit
    /\ calc.x = 7

(***************************************************************************)
(* C22: in the Dual-Axis Controller one double-click inside the bounds     *)
(* resets both the x and the y Param.normal to their own default_normal,   *)
(* and one pointer-up sets each axis' accumulator to that axis' own        *)
(* clamped Param.normal.                                                   *)
(***************************************************************************)
C22_DualAxisResetAndResync ==
    [][ /\ (\E p \in XYPoints : MultiClickPress(p, BoundsWidth)) =>
               /\ param'.normal = param.default_normal
               /\ other'.normal = other.default_normal
        /\ XYReleased =>
               /\ continuous_normal' = param.normal
               /\ other'.continuous_normal = other.normal
               /\ continuous_normal' \in 0 .. Unit
               /\ other'.continuous_normal \in 0 .. Unit
               /\ param'.normal = param.normal
               /\ other'.normal = other.normal ]_vars

C22_Witness ==
    /\ ~is_dragging /\ other.down
    /\ last_click # NoClick /\ last_click.kind = "Double"
    /\ param.normal = param.default_normal
    /\ other.normal = other.default_normal
    /\ continuous_normal # param.normal
    /\ other.continuous_normal # other.normal
    /\ param.default_normal # other.default_normal

(***************************************************************************)
(* C23: in the Dual-Axis Controller the axes are decoupled: after a        *)
(* pointer-move while Dragging the x Param.normal is the clamp of the x    *)
(* accumulator plus the scaled x delta and the y Param.normal the clamp of *)
(* the y accumulator plus the scaled y delta, so a move with zero x delta  *)
(* leaves the x accumulator and the x normal unchanged.                    *)
(***************************************************************************)
C23_DualAxisDecoupled ==
    [][ \A p \in XYPoints :
          (is_dragging /\ XYMoved(p)) =>
              /\ continuous_normal' = continuous_normal
                     + ((p.x - prev_drag_x) * scalar * Unit) \div (BoundsWidth * ScalarDen)
              /\ other'.continuous_normal = other.continuous_normal
                     + ((p.y - other.prev_drag_y) * scalar * Unit) \div (BoundsHeight * ScalarDen)
              /\ param'.normal = Clamp01(continuous_normal')
              /\ other'.normal = Clamp01(other'.continuous_normal)
              /\ p.x = prev_drag_x =>
                     (continuous_normal' = continuous_normal /\ param'.normal = param.normal)
              /\ p.y = other.prev_drag_y =>
                     (other'.continuous_normal = other.continuous_normal
                          /\ other'.normal = other.normal) ]_vars

C23_Witness ==
    /\ is_dragging /\ messages # << >>
    /\ drag.pure /\ drag.moved
    /\ prev_drag_x = drag.x0
    /\ continuous_normal = drag.a0 /\ param.normal = drag.a0
    /\ other.continuous_normal > Unit /\ other.normal = Unit

(***************************************************************************)
(* C24: the width an HSlider reports through Widget::width() is the        *)
(* configured width, Length::Fill unless width() was called, the same      *)
(* width its layout() resolves against.                                    *)
(***************************************************************************)
C24_ReportedWidthIsConfiguredWidth ==
    calc.op = "Widget::width" => calc.out = calc.width

(***************************************************************************)
(* C25: when a tick mark group is set with tick_marks() and the style      *)
(* sheet supplies a tick mark style, the drawn output of the slider        *)
(* contains the tick marks of that group.                                  *)
(***************************************************************************)
C25_TickMarksAreDrawn ==
    (calc.op = "Widget::draw" /\ calc.tick_marks.some /\ calc.arg.tick_mark_style.some) =>
        calc.tick_marks.group \subseteq calc.out.tick_marks.positions

(***************************************************************************)
(* C26: whenever a drag starts (single-click press inside the bounds) the  *)
(* accumulator equals the current Param.normal, so the first move changes  *)
(* Param.normal by exactly the scaled pointer delta from its value at      *)
(* press time, for every event sequence, also after a double-click reset   *)
(* and after the application wrote Param.normal while Idle.                *)
(***************************************************************************)
C26_DragStartsFromNormal ==
    [][ \A p \in Points, w \in Widths :
          SingleClickPress(p, w) => continuous_normal' = param'.normal ]_vars

(***************************************************************************)
(* C27: a move uses modifier_scalar exactly when every key of the          *)
(* configured modifier set is pressed; further pressed modifiers do not    *)
(* prevent the match, and with an empty configured set every move uses     *)
(* modifier_scalar, so the base scalar is never applied.                   *)
(***************************************************************************)
C27_ModifierSetMatch ==
    [][ \A p \in KeyPoints :
          ProcessedMove(p, BoundsWidth) =>
              LET fine == \A k \in modifier_keys : k \in pressed_modifiers
                  used == IF fine THEN modifier_scalar ELSE scalar
              IN  /\ continuous_normal' = continuous_normal
                         + ((p.x - prev_drag_x) * used * Unit) \div (BoundsWidth * ScalarDen)
                  /\ modifier_keys = {} =>
                         continuous_normal' = continuous_normal
                             + ((p.x - prev_drag_x) * modifier_scalar * Unit)
                                   \div (BoundsWidth * ScalarDen) ]_vars

C27_Witness ==
    /\ is_dragging /\ messages # << >>
    /\ modifier_keys = {"control"}
    /\ pressed_modifiers = {"control", "shift"}
    /\ drag.pure /\ drag.moved /\ drag.mods = pressed_modifiers
    /\ prev_drag_x = drag.x0 + 1
    /\ (continuous_normal - drag.a0) * BoundsWidth * ScalarDen = modifier_scalar * Unit

(***************************************************************************)
(* C28: a pointer-move while Dragging with zero-width bounds emits no      *)
(* notification and does not update prev_pointer_coord, so the first later *)
(* move with positive bounds width applies the whole pointer displacement  *)
(* since the last processed move, the travel made while the bounds were    *)
(* degenerate included.                                                    *)
(***************************************************************************)
C28_ZeroWidthMoveKeepsPrevCoord ==
    [][ \A p \in Points :
          /\ (is_dragging /\ ZeroMoved(p, 0)) =>
                 /\ messages' = << >>
                 /\ prev_drag_x' = prev_drag_x
                 /\ continuous_normal' = continuous_normal
                 /\ param' = param
          /\ (calc.zero /\ ProcessedMove(p, BoundsWidth)) =>
                 /\ prev_drag_x = calc.from
                 /\ continuous_normal' = continuous_normal
                        + ((p.x - calc.from) * scalar * Unit) \div (BoundsWidth * ScalarDen)
                 /\ messages' # << >> ]_vars

C28_Witness ==
    /\ is_dragging /\ messages # << >>
    /\ calc.skipped
    /\ calc.applied = 1 /\ calc.travel = 0 - 10
    /\ drag = NoDrag
    /\ param.normal = Half + (scalar * Unit) \div (BoundsWidth * ScalarDen)

(***************************************************************************)
(* C29: a pointer-move while not Dragging, a left-button press outside the *)
(* bounds, and any press or release of a non-left mouse button leave every *)
(* field of the widget state unchanged, last_click and is_dragging         *)
(* included, and emit no notification.                                     *)
(***************************************************************************)
C29_IgnoredEventsChangeNothing ==
    [][ \A p \in Points, w \in Widths :
          ( \/ (~is_dragging /\ CursorMoved(p, w))
            \/ (~(BoundsX <= p.x /\ p.x < BoundsX + w /\ BoundsY <= p.y
                      /\ p.y < BoundsY + BoundsHeight) /\ LeftPressed(p, w))
            \/ OtherEvent ) =>
              /\ UNCHANGED << param, is_dragging, prev_drag_x, continuous_normal,
                              pressed_modifiers, last_click >>
              /\ messages' = << >> ]_vars

C29_Witness ==
    /\ is_dragging /\ messages = << >>
    /\ drag.pure /\ drag.moved
    /\ continuous_normal > Unit /\ param.normal = Unit
    /\ last_click # NoClick /\ ~last_click.recent
    /\ pressed_modifiers = {"control"}

(***************************************************************************)
(* C30: a left-button release ends the drag and resynchronizes the         *)
(* accumulator to Param.normal wherever the cursor is and whether or not a *)
(* drag was in progress; it never changes Param.normal and never emits a   *)
(* notification.                                                           *)
(***************************************************************************)
C30_ReleaseAlwaysResyncs ==
    [][ ZeroReleased =>
          /\ is_dragging' = FALSE
          /\ continuous_normal' = param.normal
          /\ param' = param
          /\ messages' = << >> ]_vars

C30_Witness ==
    /\ ~is_dragging /\ messages = << >>
    /\ hist = "resynced"
    /\ calc.x = 15
    /\ continuous_normal = Unit /\ param.normal = Unit
    /\ last_click # NoClick /\ last_click.position.x # calc.x

(***************************************************************************)
(* The controller constructed from Params whose value and default differ:  *)
(* calc records the Param that State::new received.                        *)
(***************************************************************************)
DefaultNormals == {0, Unit}

Constructed(p) == [op |-> "new", normal |-> p.normal,
                   default_normal |-> p.default_normal]

InitDefaults ==
    /\ param \in [id : IDs, normal : DefaultNormals,
                  default_normal : DefaultNormals]
    /\ is_dragging = FALSE
    /\ prev_drag_x = 0
    /\ continuous_normal = param.normal
    /\ pressed_modifiers = {}
    /\ last_click = NoClick
    /\ scalar = DEFAULT_SCALAR
    /\ modifier_scalar = DEFAULT_MODIFIER_SCALAR
    /\ modifier_keys = {"control"}
    /\ messages = << >>
    /\ drag = NoDrag
    /\ hist = "none"
    /\ other = NoOther
    /\ calc = Constructed(param)

DefaultPoints == KeyPoints \cup { [x |-> 15, y |-> 0] }

NextDefaults ==
    \/ \E p \in DefaultPoints : CursorMoved(p, BoundsWidth) /\ UNCHANGED aux
    \/ \E p \in DefaultPoints : LeftPressed(p, BoundsWidth) /\ UNCHANGED aux
    \/ LeftReleased /\ UNCHANGED aux
    \/ \E m \in ModifiersStates : KeyPressed(m) /\ UNCHANGED aux
    \/ \E m \in ModifiersStates : KeyReleased(m) /\ UNCHANGED aux
    \/ OtherEvent /\ UNCHANGED aux
    \/ TimePasses /\ UNCHANGED aux

SpecDefaults == InitDefaults /\ [][NextDefaults]_vars

\* the state a double or triple click leaves: not dragging, one notification
AfterReset == ~is_dragging /\ messages # << >>

(***************************************************************************)
(* C31 as stated: no event changes Param.default_normal, every double or   *)
(* triple click sets Param.normal to the default_normal given at           *)
(* construction, and a second consecutive reset leaves the whole widget    *)
(* state, last_click included, as the first reset left it.                 *)
(***************************************************************************)
C31_SecondResetChangesNothing ==
    [][ /\ param'.default_normal = calc.default_normal
        /\ \A p \in DefaultPoints :
              MultiClickPress(p, BoundsWidth) =>
                 /\ param'.normal = calc.default_normal
                 /\ AfterReset =>
                       /\ param' = param
                       /\ is_dragging' = is_dragging
                       /\ prev_drag_x' = prev_drag_x
                       /\ continuous_normal' = continuous_normal
                       /\ pressed_modifiers' = pressed_modifiers
                       /\ last_click' = last_click ]_vars

(***************************************************************************)
(* C31, amended: no event changes Param.default_normal, every double or    *)
(* triple click sets Param.normal to the default_normal given at           *)
(* construction, and a second consecutive reset leaves the Param, the drag *)
(* flag, the previous coordinate, the accumulator and the modifiers as the *)
(* first reset left them and notifies again; only last_click differs: its  *)
(* kind steps from Double to Triple (and from Triple back to Double).      *)
(***************************************************************************)
C31_ResetsToConstructionDefault ==
    [][ /\ param'.default_normal = calc.default_normal
        /\ \A p \in DefaultPoints :
              MultiClickPress(p, BoundsWidth) =>
                 /\ param'.normal = calc.default_normal
                 /\ AfterReset =>
                       /\ param' = param
                       /\ is_dragging' = is_dragging
                       /\ prev_drag_x' = prev_drag_x
                       /\ continuous_normal' = continuous_normal
                       /\ pressed_modifiers' = pressed_modifiers
                       /\ messages' = messages
                       /\ last_click'.position = last_click.position
                       /\ last_click'.kind = NextKind(last_click.kind)
                       /\ last_click'.kind # last_click.kind ]_vars

C31_Witness ==
    /\ AfterReset
    /\ last_click # NoClick /\ last_click.kind = "Triple"
    /\ param.default_normal = Unit /\ calc.normal = 0
    /\ param.normal = param.default_normal
    /\ continuous_normal # param.normal /\ continuous_normal # calc.normal

(***************************************************************************)
(* The controller with the builder methods scalar() and modifier_scalar(): *)
(* the application builds the HSlider anew for every view, so either       *)
(* scalar can be given a new value between two events.                     *)
(***************************************************************************)
ScalarValues == {DEFAULT_MODIFIER_SCALAR, DEFAULT_SCALAR}

\* HSlider::scalar(scalar)
HSliderScalar(v) ==
    /\ scalar' = v
    /\ drag' = NoDrag
    /\ UNCHANGED << param, is_dragging, prev_drag_x, continuous_normal,
                    pressed_modifiers, last_click, modifier_scalar,
                    modifier_keys, messages, hist >>

\* HSlider::modifier_scalar(scalar)
HSliderModifierScalar(v) ==
    /\ modifier_scalar' = v
    /\ drag' = NoDrag
    /\ UNCHANGED << param, is_dragging, prev_drag_x, continuous_normal,
                    pressed_modifiers, last_click, scalar,
                    modifier_keys, messages, hist >>

NextScalars ==
    \/ \E v \in ScalarValues : HSliderScalar(v) /\ UNCHANGED aux
    \/ \E v \in ScalarValues : HSliderModifierScalar(v) /\ UNCHANGED aux
    \/ \E p \in KeyPoints : CursorMoved(p, BoundsWidth) /\ UNCHANGED aux
    \/ \E p \in KeyPoints : LeftPressed(p, BoundsWidth) /\ UNCHANGED aux
    \/ LeftReleased /\ UNCHANGED aux
    \/ \E m \in ModifiersStates : KeyPressed(m) /\ UNCHANGED aux
    \/ \E m \in ModifiersStates : KeyReleased(m) /\ UNCHANGED aux

SpecScalars == Init /\ [][NextScalars]_vars

\* what a move to x adds to the accumulator with the modifier held
FineMovement(x) == MovementX(x, prev_drag_x, BoundsWidth, modifier_scalar)

\* what a move to x adds to the accumulator without the modifier
CoarseMovement(x) == MovementX(x, prev_drag_x, BoundsWidth, scalar)

(***************************************************************************)
(* C32: in every configuration reachable through scalar() and              *)
(* modifier_scalar() the base scalar is larger than the modifier scalar,   *)
(* and a move with the modifier held changes the parameter less than the   *)
(* same move without it.                                                   *)
(***************************************************************************)
C32_BaseScalarIsAlwaysLarger ==
    [][ /\ scalar' > modifier_scalar'
        /\ \A p \in KeyPoints :
              ProcessedMove(p, BoundsWidth) /\ p.x # prev_drag_x =>
                 Abs(FineMovement(p.x)) < Abs(CoarseMovement(p.x)) ]_vars

====
